---- MODULE Spec2Model ----
(***************************************************************************)
(* RFM feature computation, replace-by-date persistence and the pipeline   *)
(* orchestrator of app/rfm.py, app/clustering.py, app/ingestion.py and     *)
(* app/pipeline/run_full.py, with the entry points and GET /segments of    *)
(* app/api.py.                                                             *)
(*                                                                         *)
(* Specifications: Spec (pipeline runs one after the other), SpecApi (the  *)
(* same with GET /segments), SpecSameDay (runs for two times of one day),  *)
(* SpecNow (runs without a calc_date), SpecConcurrent (two runs side by    *)
(* side for different dates), SpecSameDate (two runs side by side for one  *)
(* date), SpecEntry (argument defaults), SpecRFM (calculate_rfm),          *)
(* SpecKMeans (run_kmeans_clustering) and SpecSegment                      *)
(* (map_cluster_to_segment).                                               *)
(*                                                                         *)
(* Time is counted in ticks; TicksPerDay ticks make one day, so that a     *)
(* datetime difference has a whole-day part (timedelta.days) and a rest.   *)
(* Money is counted in cents (Numeric(10, 2)).                             *)
(***************************************************************************)
EXTENDS Integers, Sequences, FiniteSets, TLC

\* ---------------------------------------------------------------- bounds
TicksPerDay == 2
MaxTick == 5
MaxWindowDays == 1
MaxK == 2
MaxRuns == 2

\* ------------------------------------------------------- input domains
CustomerIds == {"C001", "C002"}
OrderIds == {"O001", "O002"}
Statuses == {"completed", "cancelled"}
Amounts == {0, 2000}
Ticks == 0..MaxTick
CalcDates == {MaxTick - 2, MaxTick - 1}
WindowDays == 0..MaxWindowDays
Ks == 1..MaxK
InvalidDate == -1

VARIABLES
    customers,      \* customers table: the committed customer_id values
    orders,         \* orders table: the committed order rows
    sess_orders,    \* the orders as the run's session holds them (committed + pending)
    rfm_table,      \* rfm_features table: committed rows
    cluster_table,  \* customer_clusters table: committed rows
    pc,             \* position of the current pipeline run
    run,            \* number of runs started; stands for the rows' surrogate id
    calc_date,      \* arguments of the current run / call
    window_days,
    k,
    rfm_features,   \* the list calculate_rfm returned last
    results,        \* the result dictionary of run_full_pipeline
    prev,           \* history: the previous run's arguments, outcome and data
    cluster_assignments, \* the list run_kmeans_clustering returned last
    centroids,      \* the standardized centroids (kmeans.cluster_centers_)
    cluster_id,     \* the argument of the last call of map_cluster_to_segment
    segment_name,   \* and the name it returned
    request,        \* the entry point of the run and the arguments given to it
    response,       \* the last response of GET /segments
    procs           \* the pipeline runs that execute concurrently

kmeans_vars == <<cluster_assignments, centroids, cluster_id, segment_name>>
other_vars == <<request, response, procs>>

vars == <<customers, orders, sess_orders, rfm_table, cluster_table, pc, run,
          calc_date, window_days, k, rfm_features, results, prev, kmeans_vars,
          other_vars>>

\* ------------------------------------------------------------ helpers
RECURSIVE SetToSeq(_)
SetToSeq(S) ==
    IF S = {} THEN <<>>
    ELSE LET x == CHOOSE y \in S : TRUE IN <<x>> \o SetToSeq(S \ {x})

RECURSIVE SumAmounts(_)
SumAmounts(S) ==
    IF S = {} THEN 0
    ELSE LET o == CHOOSE y \in S : TRUE IN o.order_amount + SumAmounts(S \ {o})

MaxDate(S) == CHOOSE d \in {o.order_date : o \in S} : \A o \in S : o.order_date <= d

\* Variant: the days are counted inclusively (.days + 1).
Days_inclusive(delta) == delta \div TicksPerDay + 1
\* timedelta.days of a difference of two datetimes
Days(delta) == delta \div TicksPerDay

\* ------------------------------------------------------------- rfm.py
\* Variant: the window opens one tick later (order_date > window_start).
window_start_strict(cd, wd) == cd - wd * TicksPerDay + 1
window_start(cd, wd) == cd - wd * TicksPerDay

\* Variant: the filter without Order.status == 'completed'.
order_filter_any_status(ords, customer_id, cd, wd) ==
    {o \in ords : /\ o.customer_id = customer_id
                  /\ o.order_date >= window_start(cd, wd)
                  /\ o.order_date <= cd}
order_filter(ords, customer_id, cd, wd) ==
    {o \in ords : /\ o.customer_id = customer_id
                  /\ o.order_date >= window_start(cd, wd)
                  /\ o.order_date <= cd
                  /\ o.status = "completed"}

\* Variant: the sentinel without the + 1.
no_orders_recency_off_by_one(wd) == wd
no_orders_recency(wd) == wd + 1

rfm_feature(ords, customer_id, cd, wd) ==
    LET sel == order_filter(ords, customer_id, cd, wd) IN
    IF sel = {}
    THEN [customer_id |-> customer_id, calc_date |-> cd,
          recency_days |-> no_orders_recency(wd), frequency |-> 0, monetary |-> 0]
    ELSE [customer_id |-> customer_id, calc_date |-> cd,
          recency_days |-> Days(cd - MaxDate(sel)),
          frequency |-> Cardinality(sel),
          monetary |-> SumAmounts(sel)]

\* Variant: only the customers that have an order (a join on orders).
customers_with_orders(custs, ords) == {c \in custs : \E o \in ords : o.customer_id = c}
query_all_customers(custs, ords) == custs

calculate_rfm(custs, ords, cd, wd) ==
    LET cs == SetToSeq(query_all_customers(custs, ords)) IN
    [i \in 1..Len(cs) |-> rfm_feature(ords, cs[i], cd, wd)]

\* --------------------------------------------------------- run result
NoResults ==
    [status |-> "none", errors |-> <<>>,
     ingestion |-> [state |-> "unset", customers_ingested |-> 0,
                    orders_ingested |-> 0, errors |-> <<>>],
     rfm |-> [state |-> "unset", customers_processed |-> 0],
     clustering |-> [state |-> "unset", customers_clustered |-> 0,
                     clusters_created |-> 0]]

\* -------------------------------------------------------- ingestion.py
\* A CSV file of the data directory: absent, or a list of rows.
NoFile == [exists |-> FALSE, rows |-> <<>>]
File(rows) == [exists |-> TRUE, rows |-> rows]

RECURSIVE add_customers(_, _, _)
add_customers(custs, rows, i) ==
    IF i > Len(rows) THEN custs
    ELSE add_customers(custs \cup {rows[i]}, rows, i + 1)

\* ingest_customers_from_csv: FileNotFoundError when the file is absent;
\* otherwise every row's customer is updated or created, then committed.
ingest_customers_from_csv(custs, csv) ==
    IF ~csv.exists
    THEN [raised |-> TRUE, customers |-> custs, count |-> 0]
    ELSE LET after == add_customers(custs, csv.rows, 1) IN
         [raised |-> FALSE, customers |-> after,
          count |-> Cardinality(after \ custs)]

\* One row of the orders file put into the session: the order with that
\* order_id is updated if the session has it, created otherwise.
upsert_order(sess, row) ==
    {o \in sess : o.order_id # row.order_id} \cup {row}

\* ForeignKey("customers.customer_id") of Order.customer_id
orders_fk_ok(custs, sess) == \A o \in sess : o.customer_id \in custs

RECURSIVE ingest_order_rows(_, _, _)
ingest_order_rows(sess, rows, i) ==
    IF i > Len(rows) THEN [raised |-> FALSE, sess |-> sess]
    ELSE IF rows[i].order_date = InvalidDate
         THEN [raised |-> TRUE, sess |-> sess]      \* ValueError: Invalid order_date
         ELSE ingest_order_rows(upsert_order(sess, rows[i]), rows, i + 1)

\* ingest_orders_from_csv on a session holding the orders sess0.  The result
\* gives the session's orders afterwards: committed when nothing was raised,
\* left pending in the session (no rollback is issued) when a row raised or
\* the commit was refused.
ingest_orders_from_csv(custs, sess0, csv) ==
    IF ~csv.exists
    THEN [raised |-> TRUE, sess |-> sess0, count |-> 0]
    ELSE LET r == ingest_order_rows(sess0, csv.rows, 1)
             created == {o.order_id : o \in r.sess} \ {o.order_id : o \in sess0}
         IN  IF r.raised \/ ~orders_fk_ok(custs, r.sess)
             THEN [raised |-> TRUE, sess |-> r.sess, count |-> 0]
             ELSE [raised |-> FALSE, sess |-> r.sess, count |-> Cardinality(created)]

\* ingest_all: both ingestions are tried, each exception is caught and
\* recorded in the returned dictionary's own errors list.
ingest_all(custs, ords, ccsv, ocsv) ==
    LET c == ingest_customers_from_csv(custs, ccsv)
        o == ingest_orders_from_csv(c.customers, ords, ocsv)
    IN  [customers |-> c.customers,
         orders |-> IF o.raised THEN ords ELSE o.sess,
         sess_orders |-> o.sess,
         result |-> [state |-> "returned",
                     customers_ingested |-> c.count,
                     orders_ingested |-> o.count,
                     errors |-> (IF c.raised THEN <<"Customer ingestion error">> ELSE <<>>)
                                \o (IF o.raised THEN <<"Order ingestion error">> ELSE <<>>)]]

\* ------------------------------------------------------- clustering.py
\* Standardized values are counted in tenths; Half is the 0.5 of the rules.
Half == 5

\* Variant: the rule for Lost is tried before the rule for At Risk.
map_cluster_to_segment_lost_first(cid, cents) ==
    LET centroid == cents[cid + 1]
        recency_std == centroid[1]
        freq_std == centroid[2]
        monetary_std == centroid[3]
    IN  IF recency_std < -Half /\ freq_std > Half /\ monetary_std > Half
        THEN "Champions"
        ELSE IF recency_std < -Half /\ freq_std > Half THEN "Loyal Customers"
        ELSE IF recency_std < -Half /\ monetary_std > Half THEN "Big Spenders"
        ELSE IF recency_std < 0 /\ freq_std > 0 THEN "Potential Loyalists"
        ELSE IF recency_std > Half THEN "Lost"
        ELSE IF recency_std > Half /\ freq_std < -Half THEN "At Risk"
        ELSE IF freq_std < -Half /\ monetary_std < -Half THEN "Hibernating"
        ELSE "Need Attention"
\* map_cluster_to_segment: centroids[cluster_id] is row cluster_id + 1 of cents
map_cluster_to_segment(cid, cents) ==
    LET centroid == cents[cid + 1]
        recency_std == centroid[1]
        freq_std == centroid[2]
        monetary_std == centroid[3]
    IN  IF recency_std < -Half /\ freq_std > Half /\ monetary_std > Half
        THEN "Champions"
        ELSE IF recency_std < -Half /\ freq_std > Half THEN "Loyal Customers"
        ELSE IF recency_std < -Half /\ monetary_std > Half THEN "Big Spenders"
        ELSE IF recency_std < 0 /\ freq_std > 0 THEN "Potential Loyalists"
        ELSE IF recency_std > Half /\ freq_std < -Half THEN "At Risk"
        ELSE IF recency_std > Half THEN "Lost"
        ELSE IF freq_std < -Half /\ monetary_std < -Half THEN "Hibernating"
        ELSE "Need Attention"

rfm_rows_for(table, d) == {r \in table : r.calc_date = d}

\* Variant: the loop runs over the k clusters instead of the rows.
first_k_rows(rows, kk) == SubSeq(rows, 1, kk)
assigned_rows(rows, kk) == rows

\* Variant: only an empty selection is refused (if not rfm_features).
insufficient_data_empty_only(n, kk) == n = 0
\* len(rfm_features) < k: raise ValueError("Not enough customers ...")
insufficient_data(n, kk) == n < kk

\* run_kmeans_clustering: the labels are what KMeans.fit_predict returns, one
\* of 0..k-1 for each row.
run_kmeans_clustering(table, d, kk, labels) ==
    LET rows == assigned_rows(SetToSeq(rfm_rows_for(table, d)), kk) IN
    [i \in 1..Len(rows) |->
        [customer_id |-> rows[i].customer_id, calc_date |-> d,
         cluster_id |-> labels[rows[i].customer_id]]]

\* X: one row per RFM row with the columns recency_days, frequency, monetary
FeatureNames == <<"recency_days", "frequency", "monetary">>
feature_matrix(rows) ==
    [i \in 1..Len(rows) |->
        [j \in 1..Len(FeatureNames) |-> rows[i].data[FeatureNames[j]]]]

\* scaler.inverse_transform(centroids_std): entry (i, j) is the mean of
\* feature j plus centroids_std[i][j] times the scale of feature j; the entry
\* is kept in that form.
inverse_transform(cents) ==
    [i \in 1..Len(cents) |->
        [j \in 1..Len(cents[i]) |-> [mean_and_scale_of |-> FeatureNames[j],
                                      std |-> cents[i][j]]]]

\* The loop of run_kmeans_clustering with the segment name of each row.
named_assignments(rows, cents) ==
    [i \in 1..Len(rows) |->
        [customer_id |-> rows[i].customer_id, calc_date |-> rows[i].calc_date,
         cluster_id |-> rows[i].cluster_id,
         segment_name |-> map_cluster_to_segment(rows[i].cluster_id, cents)]]

\* ------------------------------------------------------------ models.py
Key(r) == <<r.customer_id, r.calc_date>>

\* UniqueConstraint('customer_id', 'calc_date') on the rows kept and added
uq_customer_calc_date(kept, new) ==
    /\ \A i, j \in 1..Len(new) : Key(new[i]) = Key(new[j]) => i = j
    /\ \A i \in 1..Len(new) : \A r \in kept : Key(r) # Key(new[i])

\* ---------------------------------------------------------- run_full.py
\* Variant: the delete without its filter on calc_date.
delete_all_rows(table, d) == {}
\* Variant: the delete compares the calendar day (func.date) of calc_date.
delete_by_day(table, d) ==
    {r \in table : r.calc_date \div TicksPerDay # d \div TicksPerDay}
delete_by_date(table, d) == {r \in table : r.calc_date # d}

\* The rows of a list as the table stores them; run stands for the surrogate
\* ids the insert of this run hands out.
Stored(new, n) ==
    {[customer_id |-> new[i].customer_id, calc_date |-> new[i].calc_date,
      data |-> new[i], run |-> n] : i \in 1..Len(new)}

\* Variant: merge instead of replace: the rows are added to what is stored,
\* without the delete and on a table without the unique constraint.
append_rows(table, d, new, n) == [ok |-> TRUE, table |-> table \cup Stored(new, n)]
\* delete the rows of calc_date d, add_all(new), commit
replace_by_date(table, d, new, n) ==
    LET kept == delete_by_date(table, d) IN
    IF uq_customer_calc_date(kept, new)
    THEN [ok |-> TRUE, table |-> kept \cup Stored(new, n)]
    ELSE [ok |-> FALSE, table |-> table]

\* Variant: the delete is not undone when the stage fails.
keep_deleted(before, d) == delete_by_date(before, d)
\* db.rollback(): the table as it was before the stage's delete
rollback(before, d) == before

\* The input files the runs find in the data directory.
Row1 == [order_id |-> "O001", customer_id |-> "C001", order_date |-> MaxTick - 3,
         order_amount |-> 2000, status |-> "completed"]
Row2 == [order_id |-> "O001", customer_id |-> "C001", order_date |-> MaxTick - 3,
         order_amount |-> 2000, status |-> "cancelled"]
Row3 == [order_id |-> "O002", customer_id |-> "C002", order_date |-> MaxTick - 1,
         order_amount |-> 0, status |-> "completed"]
BadRow == [order_id |-> "O002", customer_id |-> "C002", order_date |-> InvalidDate,
           order_amount |-> 0, status |-> "completed"]

CustomerFiles == {NoFile, File(<<"C001">>), File(<<"C001", "C002">>)}
OrderFiles ==
    {NoFile, File(<<Row1>>), File(<<Row2>>), File(<<Row1, Row3>>),
     File(<<Row1, BadRow>>)}

RunWindowDays == {MaxWindowDays}
Faults == {"none", "raise", "rollback_raises"}

\* History kept for a run that repeats the arguments of the run before it: the
\* earlier run's stage results and row counts, and whether the stored customers
\* or orders have changed since it ended.
NoPrev == [valid |-> FALSE, data_changed |-> FALSE, rfm |-> "unset",
           clustering |-> "unset", n_rfm |-> 0, n_clusters |-> 0]
Changed(p, before, after) ==
    IF p.valid /\ before # after THEN [p EXCEPT !.data_changed = TRUE] ELSE p

RowsFor(table, d) == {r \in table : r.calc_date = d}

\* An optional argument: None, or a value.
Absent == [given |-> FALSE, value |-> 0]
Given(v) == [given |-> TRUE, value |-> v]

NoRequest == [entry |-> "none", window_days |-> Absent, k |-> Absent]
NoResponse == [status_code |-> 0, calc_date |-> 0, segments |-> {}]

\* config.py
RFM_WINDOW_DAYS == 365
DEFAULT_K == 5

\* if x is None: x = default
if_none(arg, default) == IF arg.given THEN arg.value ELSE default

\* x or default: the default is taken when x is None and when x is 0
or_default(arg, default) ==
    IF arg.given /\ arg.value # 0 THEN Given(arg.value) ELSE Given(default)

\* run_full_pipeline, after the defaults: SessionLocal(), the results dictionary
Start(d, wd, kk) ==
    /\ pc \in {"idle", "done", "raised"}
    /\ run < MaxRuns
    /\ run' = run + 1
    /\ calc_date' = d
    /\ window_days' = wd
    /\ k' = kk
    /\ sess_orders' = orders
    /\ rfm_features' = <<>>
    /\ results' = [NoResults EXCEPT !.status = "success"]
    /\ prev' = IF pc = "done" /\ <<d, wd, kk>> = <<calc_date, window_days, k>>
               THEN [valid |-> TRUE, data_changed |-> FALSE,
                     rfm |-> results.rfm.state, clustering |-> results.clustering.state,
                     n_rfm |-> Cardinality(RowsFor(rfm_table, calc_date)),
                     n_clusters |-> Cardinality(RowsFor(cluster_table, calc_date))]
               ELSE NoPrev
    /\ pc' = "ingest"
    /\ response' = NoResponse
    /\ UNCHANGED <<customers, orders, rfm_table, cluster_table, kmeans_vars, procs>>

\* run_full_pipeline(calc_date, window_days, k) called directly
RunFullPipeline(d, wd, kk) ==
    /\ request' = [entry |-> "run_full_pipeline", window_days |-> wd, k |-> kk]
    /\ Start(d, if_none(wd, RFM_WINDOW_DAYS), if_none(kk, DEFAULT_K))

\* POST /pipeline/run: the handler resolves the defaults and calls
\* run_full_pipeline with the resolved values.
PostPipelineRun(d, wd, kk) ==
    /\ request' = [entry |-> "POST /pipeline/run", window_days |-> wd, k |-> kk]
    /\ Start(d, if_none(or_default(wd, RFM_WINDOW_DAYS), RFM_WINDOW_DAYS),
                 if_none(or_default(kk, DEFAULT_K), DEFAULT_K))

\* Variant: a stage that failed ends the run.
abort_on_failure(failed, next) == IF failed THEN "done" ELSE next
\* The end of a step whose exceptions its handler caught: control goes on
\* with the next step, whether the step failed or not.
after_stage(failed, next) == next

\* Step 1: ingest_all never raises, so the handler of the step is not entered.
IngestStage(ccsv, ocsv) ==
    /\ pc = "ingest"
    /\ LET r == ingest_all(customers, orders, ccsv, ocsv) IN
       /\ customers' = r.customers
       /\ orders' = r.orders
       /\ sess_orders' = r.sess_orders
       /\ results' = [results EXCEPT !.ingestion = r.result]
    /\ prev' = Changed(prev, <<customers, orders>>, <<customers', orders'>>)
    /\ pc' = after_stage(results'.ingestion.errors # <<>>, "rfm")
    /\ UNCHANGED <<rfm_table, cluster_table, run, calc_date, window_days, k,
                   rfm_features, kmeans_vars, other_vars>>

\* An exception left a stage's handler (db.rollback() raised): the outer
\* handler sets status 'error'; finally db.close().
Escaped(res) ==
    [res EXCEPT !.status = "error", !.errors = Append(@, "Pipeline error")]

\* finally: db.close(), then return results.  An exception close() raises is
\* raised to the caller in place of the return.
close_session(raises) == IF raises THEN "raised" ELSE "done"

\* Lines 92-93: reached when no exception escaped.
final_status(res) ==
    IF res.errors # <<>> THEN [res EXCEPT !.status = "partial_success"] ELSE res

\* Step 2: delete, calculate_rfm, add_all, commit; rollback on any exception.
\* The commit also flushes the orders an interrupted ingestion left pending.
RFMStage(fault, view, close_raises) ==
    /\ pc = "rfm"
    /\ LET feats == calculate_rfm(customers, view, calc_date, window_days)
           w == replace_by_date(rfm_table, calc_date, feats, run)
           ok == fault = "none" /\ orders_fk_ok(customers, sess_orders) /\ w.ok
       IN  IF ok
           THEN /\ rfm_table' = w.table
                /\ orders' = sess_orders
                /\ rfm_features' = feats
                /\ results' = [results EXCEPT
                                  !.rfm = [state |-> "ok",
                                           customers_processed |-> Len(feats)]]
                /\ pc' = after_stage(FALSE, "clustering")
                /\ UNCHANGED sess_orders
           ELSE /\ rfm_table' = rollback(rfm_table, calc_date)
                /\ sess_orders' = orders
                /\ rfm_features' = <<>>
                /\ IF fault = "rollback_raises"
                   THEN /\ results' = Escaped(results)
                        /\ pc' = close_session(close_raises)
                   ELSE /\ results' = [results EXCEPT
                                          !.errors = Append(@, "RFM calculation error"),
                                          !.rfm = [state |-> "error",
                                                   customers_processed |-> 0]]
                        /\ pc' = after_stage(TRUE, "clustering")
                /\ UNCHANGED orders
    /\ prev' = Changed(prev, orders, orders')
    /\ UNCHANGED <<customers, cluster_table, run, calc_date, window_days, k,
                   kmeans_vars, other_vars>>

\* Step 3: delete, run_kmeans_clustering, add_all, commit; rollback on any
\* exception; then the status and db.close().
ClusteringStage(fault, labels, close_raises) ==
    /\ pc = "clustering"
    /\ LET n == Cardinality(rfm_rows_for(rfm_table, calc_date))
           new == run_kmeans_clustering(rfm_table, calc_date, k, labels)
           w == replace_by_date(cluster_table, calc_date, new, run)
           ok == fault = "none" /\ ~insufficient_data(n, k) /\ w.ok
       IN  IF ok
           THEN /\ cluster_table' = w.table
                /\ results' = final_status(
                       [results EXCEPT
                           !.clustering = [state |-> "ok",
                                           customers_clustered |-> Len(new),
                                           clusters_created |-> k]])
           ELSE /\ cluster_table' = rollback(cluster_table, calc_date)
                /\ IF fault = "rollback_raises"
                   THEN results' = Escaped(results)
                   ELSE results' = final_status(
                            [results EXCEPT
                                !.errors = Append(@, "Clustering error"),
                                !.clustering = [state |-> "error",
                                                customers_clustered |-> 0,
                                                clusters_created |-> 0]])
    /\ pc' = close_session(close_raises)
    /\ UNCHANGED <<customers, orders, sess_orders, rfm_table, run, calc_date,
                   window_days, k, rfm_features, prev, kmeans_vars, other_vars>>

\* Nothing has been clustered or named yet.
NoKMeans ==
    /\ cluster_assignments = <<>>
    /\ centroids = <<>>
    /\ cluster_id = 0
    /\ segment_name = ""

\* No run has been requested, nothing has been asked of the API and no runs
\* execute side by side.
NoOther ==
    /\ request = NoRequest
    /\ response = NoResponse
    /\ procs = <<>>

\* ---------------------------------------------------------------- api.py
MaxOf(S) == CHOOSE x \in S : \A y \in S : y <= x

\* Variant: the calc_date of the assignment written last (the highest id).
calc_date_written_last(ct) ==
    IF ct = {} THEN Absent
    ELSE Given((CHOOSE a \in ct : \A b \in ct : b.run <= a.run).calc_date)
\* db.query(func.max(CustomerCluster.calc_date)).scalar(): None on an empty table
latest_calc_date(ct) ==
    IF ct = {} THEN Absent ELSE Given(MaxOf({a.calc_date : a \in ct}))

\* The assignments of calc_date d joined with the RFM rows on (customer_id,
\* calc_date), grouped by cluster: segment_name depends on cluster_id alone
\* among the rows of one date, which one run wrote.
segment_stats(ct, rt, d) ==
    LET joined == {a \in ct : a.calc_date = d /\ \E f \in rt : Key(f) = Key(a)}
    IN  {[cluster_id |-> c,
          customer_count |-> Cardinality({a \in joined : a.data.cluster_id = c})] :
            c \in {a.data.cluster_id : a \in joined}}

\* GET /segments without calc_date
get_segments(ct, rt) ==
    LET latest_calc == latest_calc_date(ct) IN
    IF ~latest_calc.given
    THEN [status_code |-> 404, calc_date |-> 0, segments |-> {}]
    ELSE [status_code |-> 200, calc_date |-> latest_calc.value,
          segments |-> segment_stats(ct, rt, latest_calc.value)]

\* The API is asked between the runs.
GetSegments ==
    /\ pc \in {"idle", "done", "raised"}
    /\ response' = get_segments(cluster_table, rfm_table)
    /\ UNCHANGED <<customers, orders, sess_orders, rfm_table, cluster_table, pc, run,
                   calc_date, window_days, k, rfm_features, results, prev,
                   kmeans_vars, request, procs>>

Init ==
    /\ customers = {}
    /\ orders = {}
    /\ sess_orders = {}
    /\ rfm_table = {}
    /\ cluster_table = {}
    /\ pc = "idle"
    /\ run = 0
    /\ calc_date = 0
    /\ window_days = 0
    /\ k = 1
    /\ rfm_features = <<>>
    /\ results = NoResults
    /\ prev = NoPrev
    /\ NoKMeans
    /\ NoOther

\* The orders calculate_rfm reads are those of the session when the session
\* flushes before a query, and the committed ones when it does not; the
\* session factory (app/db.py) decides which, so both are allowed.
Next ==
    \/ \E d \in CalcDates, wd \in RunWindowDays, kk \in Ks :
           RunFullPipeline(d, Given(wd), Given(kk))
    \/ \E ccsv \in CustomerFiles, ocsv \in OrderFiles : IngestStage(ccsv, ocsv)
    \/ \E fault \in Faults, view \in {orders, sess_orders}, close_raises \in BOOLEAN :
           RFMStage(fault, view, close_raises)
    \/ \E fault \in Faults, labels \in [CustomerIds -> 0..(MaxK - 1)],
          close_raises \in BOOLEAN :
           /\ \A c \in CustomerIds : labels[c] < k
           /\ ClusteringStage(fault, labels, close_raises)

Spec == Init /\ [][Next]_vars

\* The pipeline runs with GET /segments asked between them.
NextApi == Next \/ GetSegments

SpecApi == Init /\ [][NextApi]_vars

\* ------------------------------------- runs at two times of one day
\* The runs of Spec with calc_dates that are two times of the same day.
DayStart == ((MaxTick - 1) \div TicksPerDay) * TicksPerDay
SameDayDates == {DayStart, DayStart + 1}

NextSameDay ==
    \/ \E d \in SameDayDates, wd \in RunWindowDays, kk \in Ks :
           RunFullPipeline(d, Given(wd), Given(kk))
    \/ \E ccsv \in CustomerFiles, ocsv \in OrderFiles : IngestStage(ccsv, ocsv)
    \/ \E fault \in Faults, view \in {orders, sess_orders}, close_raises \in BOOLEAN :
           RFMStage(fault, view, close_raises)
    \/ \E fault \in Faults, labels \in [CustomerIds -> 0..(MaxK - 1)],
          close_raises \in BOOLEAN :
           /\ \A c \in CustomerIds : labels[c] < k
           /\ ClusteringStage(fault, labels, close_raises)

SpecSameDay == Init /\ [][NextSameDay]_vars

\* ------------------------------------------- runs without a calc_date
\* Runs that are given no calc_date: the key is the wall clock's time when
\* the call resolves its defaults.  The clock is read once per call and has
\* advanced between the calls of two successive runs (a run takes longer than
\* the clock's resolution).  ImportTime is the time the module was loaded.
ImportTime == MaxTick - 3
Nows == (MaxTick - 2)..MaxTick

\* Variant: the default is evaluated once, when the function is defined
\* (def run_full_pipeline(calc_date=datetime.now(), ...)).
time_at_import(now, at_import) == at_import
\* datetime.now() evaluated in the call
current_time(now, at_import) == now

\* run_full_pipeline(calc_date=None, ...) called at time now; POST
\* /pipeline/run without calc_date resolves to the same (api.py:72).
RunWithoutCalcDate(now, wd, kk) ==
    /\ IF request = NoRequest THEN TRUE ELSE now > request.at
    /\ request' = [entry |-> "run_full_pipeline", calc_date |-> Absent,
                   window_days |-> wd, k |-> kk, at |-> now]
    /\ Start(if_none(Absent, current_time(now, ImportTime)),
             if_none(wd, RFM_WINDOW_DAYS), if_none(kk, DEFAULT_K))

NextNow ==
    \/ \E now \in Nows, wd \in RunWindowDays, kk \in Ks :
           RunWithoutCalcDate(now, Given(wd), Given(kk))
    \/ \E ccsv \in CustomerFiles, ocsv \in OrderFiles : IngestStage(ccsv, ocsv)
    \/ \E fault \in Faults, view \in {orders, sess_orders}, close_raises \in BOOLEAN :
           RFMStage(fault, view, close_raises)
    \/ \E fault \in Faults, labels \in [CustomerIds -> 0..(MaxK - 1)],
          close_raises \in BOOLEAN :
           /\ \A c \in CustomerIds : labels[c] < k
           /\ ClusteringStage(fault, labels, close_raises)

SpecNow == Init /\ [][NextNow]_vars

\* ------------------------------------------------ two runs side by side
\* Two runs of run_full_pipeline for different calc_dates, each with its own
\* session, over the same database and the same files.  A step is one
\* transaction or one loop of queries; what a session adds stays pending until
\* its commit.  A commit that fails leaves the session unusable until
\* rollback() is called: every statement before that raises.
ProcIds == 1..2
ProcDate(p) == IF p = 1 THEN MaxTick - 2 ELSE MaxTick - 1
SharedCustomers == <<"C001", "C002">>
SharedOrders == <<Row1, Row3>>

NewProc(p, kk) ==
    [pc |-> "customers", calc_date |-> ProcDate(p), k |-> kk,
     new_customers |-> {}, new_orders |-> {}, needs_rollback |-> FALSE,
     errors |-> <<>>, rfm |-> "unset", clustering |-> "unset"]

InitConcurrent ==
    /\ customers \in {{}, {"C001"}}
    /\ orders = {}
    /\ sess_orders = {}
    /\ rfm_table = {}
    /\ cluster_table = {}
    /\ pc = "idle"
    /\ run = 0
    /\ calc_date = 0
    /\ window_days = MaxWindowDays
    /\ k = 1
    /\ rfm_features = <<>>
    /\ results = NoResults
    /\ prev = NoPrev
    /\ NoKMeans
    /\ request = NoRequest
    /\ response = NoResponse
    /\ procs \in {<<NewProc(1, k1), NewProc(2, k2)>> : k1 \in Ks, k2 \in Ks}

shared_unchanged ==
    UNCHANGED <<sess_orders, pc, run, calc_date, window_days, k, rfm_features,
                results, prev, kmeans_vars, request, response>>

\* ingest_customers_from_csv, the loop: each row's customer is looked up and
\* added to the session when the query finds none.
CustomersLoop(p) ==
    /\ procs[p].pc = "customers"
    /\ procs' = [procs EXCEPT
           ![p].new_customers =
               {SharedCustomers[i] : i \in 1..Len(SharedCustomers)} \ customers,
           ![p].pc = "customers_commit"]
    /\ UNCHANGED <<customers, orders, rfm_table, cluster_table>>
    /\ shared_unchanged

\* ingest_customers_from_csv, db.commit(): customers.customer_id is unique
CustomersCommit(p) ==
    /\ procs[p].pc = "customers_commit"
    /\ IF procs[p].new_customers \cap customers = {}
       THEN /\ customers' = customers \cup procs[p].new_customers
            /\ procs' = [procs EXCEPT ![p].new_customers = {}, ![p].pc = "orders"]
       ELSE /\ customers' = customers
            /\ procs' = [procs EXCEPT
                   ![p].new_customers = {},
                   ![p].needs_rollback = TRUE,
                   ![p].errors = Append(@, "Customer ingestion error"),
                   ![p].pc = "orders"]
    /\ UNCHANGED <<orders, rfm_table, cluster_table>>
    /\ shared_unchanged

\* ingest_orders_from_csv, the loop
OrdersLoop(p) ==
    /\ procs[p].pc = "orders"
    /\ IF procs[p].needs_rollback
       THEN procs' = [procs EXCEPT
                ![p].errors = Append(@, "Order ingestion error"),
                ![p].pc = "rfm"]
       ELSE procs' = [procs EXCEPT
                ![p].new_orders =
                    {SharedOrders[i] : i \in 1..Len(SharedOrders)} \ orders,
                ![p].pc = "orders_commit"]
    /\ UNCHANGED <<customers, orders, rfm_table, cluster_table>>
    /\ shared_unchanged

\* ingest_orders_from_csv, db.commit(): orders.order_id is unique and
\* orders.customer_id refers to a stored customer
OrdersCommit(p) ==
    /\ procs[p].pc = "orders_commit"
    /\ LET new == procs[p].new_orders
           ok == /\ {o.order_id : o \in new} \cap {o.order_id : o \in orders} = {}
                 /\ orders_fk_ok(customers, new)
       IN  IF ok
           THEN /\ orders' = orders \cup new
                /\ procs' = [procs EXCEPT ![p].new_orders = {}, ![p].pc = "rfm"]
           ELSE /\ orders' = orders
                /\ procs' = [procs EXCEPT
                       ![p].new_orders = {},
                       ![p].needs_rollback = TRUE,
                       ![p].errors = Append(@, "Order ingestion error"),
                       ![p].pc = "rfm"]
    /\ UNCHANGED <<customers, rfm_table, cluster_table>>
    /\ shared_unchanged

\* Step 2 of the run, one transaction
RFMStageOf(p) ==
    /\ procs[p].pc = "rfm"
    /\ LET d == procs[p].calc_date
           feats == calculate_rfm(customers, orders, d, window_days)
           w == replace_by_date(rfm_table, d, feats, p)
       IN  IF ~procs[p].needs_rollback /\ w.ok
           THEN /\ rfm_table' = w.table
                /\ procs' = [procs EXCEPT ![p].rfm = "ok", ![p].pc = "clustering"]
           ELSE /\ rfm_table' = rollback(rfm_table, d)
                /\ procs' = [procs EXCEPT
                       ![p].needs_rollback = FALSE,
                       ![p].errors = Append(@, "RFM calculation error"),
                       ![p].rfm = "error",
                       ![p].pc = "clustering"]
    /\ UNCHANGED <<customers, orders, cluster_table>>
    /\ shared_unchanged

\* Step 3 of the run, one transaction
ClusteringStageOf(p, labels) ==
    /\ procs[p].pc = "clustering"
    /\ LET d == procs[p].calc_date
           n == Cardinality(rfm_rows_for(rfm_table, d))
           new == run_kmeans_clustering(rfm_table, d, procs[p].k, labels)
           w == replace_by_date(cluster_table, d, new, p)
       IN  IF ~insufficient_data(n, procs[p].k) /\ w.ok
           THEN /\ cluster_table' = w.table
                /\ procs' = [procs EXCEPT ![p].clustering = "ok", ![p].pc = "done"]
           ELSE /\ cluster_table' = rollback(cluster_table, d)
                /\ procs' = [procs EXCEPT
                       ![p].errors = Append(@, "Clustering error"),
                       ![p].clustering = "error",
                       ![p].pc = "done"]
    /\ UNCHANGED <<customers, orders, rfm_table>>
    /\ shared_unchanged

NextConcurrent ==
    \E p \in ProcIds :
        \/ CustomersLoop(p)
        \/ CustomersCommit(p)
        \/ OrdersLoop(p)
        \/ OrdersCommit(p)
        \/ RFMStageOf(p)
        \/ \E labels \in [CustomerIds -> 0..(MaxK - 1)] :
               /\ \A c \in CustomerIds : labels[c] < procs[p].k
               /\ ClusteringStageOf(p, labels)

SpecConcurrent == InitConcurrent /\ [][NextConcurrent]_vars

\* ------------------------------------------ two runs for one calc_date
\* Two runs of run_full_pipeline for the same calc_date, each with its own
\* session (POST /pipeline/run is served by a thread per request), over a
\* database that already holds the files' customers and orders.  A stage is
\* two steps: its DELETE statement, which removes the rows of the date that
\* are committed when the statement runs, and the rest up to the commit, where
\* the rows are inserted under the unique constraint.  Nothing in
\* run_full_pipeline or run_pipeline waits for another run.
SameDate == MaxTick - 1
StoredCustomers == {SharedCustomers[i] : i \in 1..Len(SharedCustomers)}
StoredOrders == {SharedOrders[i] : i \in 1..Len(SharedOrders)}
EnoughKs == {kk \in Ks : kk <= Len(SharedCustomers)}

NewRun(p, kk) ==
    [pc |-> "customers", calc_date |-> SameDate, k |-> kk,
     new_customers |-> {}, new_orders |-> {}, needs_rollback |-> FALSE,
     errors |-> <<>>, rfm |-> "unset", clustering |-> "unset",
     deleted |-> {}, overlapped |-> FALSE]

\* The rows an earlier run has left for the date, if there was one.
EarlierRfm(earlier) ==
    IF earlier
    THEN Stored(calculate_rfm(StoredCustomers, StoredOrders, SameDate, MaxWindowDays), 0)
    ELSE {}
EarlierClusters(earlier) ==
    IF earlier
    THEN Stored(run_kmeans_clustering(EarlierRfm(earlier), SameDate, 1,
                                      [c \in CustomerIds |-> 0]), 0)
    ELSE {}

InitSameDate ==
    /\ customers = StoredCustomers
    /\ orders = StoredOrders
    /\ sess_orders = {}
    /\ \E earlier \in BOOLEAN :
           /\ rfm_table = EarlierRfm(earlier)
           /\ cluster_table = EarlierClusters(earlier)
    /\ pc = "idle"
    /\ run = 0
    /\ calc_date = SameDate
    /\ window_days = MaxWindowDays
    /\ k = 1
    /\ rfm_features = <<>>
    /\ results = NoResults
    /\ prev = NoPrev
    /\ NoKMeans
    /\ request = NoRequest
    /\ response = NoResponse
    /\ procs \in {<<NewRun(1, k1), NewRun(2, k2)>> : k1 \in EnoughKs, k2 \in EnoughKs}

\* Variant: the delete removes the rows that are committed when the stage
\* commits (the stage sees the other run's commit).
deleted_at_commit(at_delete, at_commit) == at_commit
\* The rows a stage's DELETE removes: those committed when the statement ran.
deleted_rows(at_delete, at_commit) == at_delete

\* Another run is between the DELETE and the commit of the same stage.
OtherAt(p, where) == \E q \in ProcIds : q # p /\ procs[q].pc = where

\* Step 2, line 58: the DELETE of the date's RFM rows
RFMDelete(p) ==
    /\ procs[p].pc = "rfm"
    /\ IF procs[p].needs_rollback
       THEN procs' = [procs EXCEPT
                ![p].needs_rollback = FALSE,
                ![p].errors = Append(@, "RFM calculation error"),
                ![p].rfm = "error",
                ![p].pc = "clustering"]
       ELSE procs' = [procs EXCEPT
                ![p].deleted = RowsFor(rfm_table, procs[p].calc_date),
                ![p].overlapped = @ \/ OtherAt(p, "rfm_commit"),
                ![p].pc = "rfm_commit"]
    /\ UNCHANGED <<customers, orders, rfm_table, cluster_table>>
    /\ shared_unchanged

\* Step 2, lines 60-70: calculate_rfm, add_all, commit; rollback on exception
RFMCommit(p) ==
    /\ procs[p].pc = "rfm_commit"
    /\ LET d == procs[p].calc_date
           feats == calculate_rfm(customers, orders, d, window_days)
           kept == rfm_table \ deleted_rows(procs[p].deleted, RowsFor(rfm_table, d))
       IN  IF uq_customer_calc_date(kept, feats)
           THEN /\ rfm_table' = kept \cup Stored(feats, p)
                /\ procs' = [procs EXCEPT ![p].deleted = {}, ![p].rfm = "ok",
                                          ![p].pc = "clustering"]
           ELSE /\ rfm_table' = rollback(rfm_table, d)
                /\ procs' = [procs EXCEPT
                       ![p].deleted = {},
                       ![p].errors = Append(@, "RFM calculation error"),
                       ![p].rfm = "error",
                       ![p].pc = "clustering"]
    /\ UNCHANGED <<customers, orders, cluster_table>>
    /\ shared_unchanged

\* Step 3, line 75: the DELETE of the date's cluster assignments
ClusteringDelete(p) ==
    /\ procs[p].pc = "clustering"
    /\ procs' = [procs EXCEPT
           ![p].deleted = RowsFor(cluster_table, procs[p].calc_date),
           ![p].overlapped = @ \/ OtherAt(p, "clustering_commit"),
           ![p].pc = "clustering_commit"]
    /\ UNCHANGED <<customers, orders, rfm_table, cluster_table>>
    /\ shared_unchanged

\* Step 3, lines 77-90: run_kmeans_clustering, add_all, commit; rollback on
\* exception
ClusteringCommit(p, labels) ==
    /\ procs[p].pc = "clustering_commit"
    /\ LET d == procs[p].calc_date
           n == Cardinality(rfm_rows_for(rfm_table, d))
           new == run_kmeans_clustering(rfm_table, d, procs[p].k, labels)
           kept == cluster_table
                       \ deleted_rows(procs[p].deleted, RowsFor(cluster_table, d))
       IN  IF ~insufficient_data(n, procs[p].k) /\ uq_customer_calc_date(kept, new)
           THEN /\ cluster_table' = kept \cup Stored(new, p)
                /\ procs' = [procs EXCEPT ![p].deleted = {}, ![p].clustering = "ok",
                                          ![p].pc = "done"]
           ELSE /\ cluster_table' = rollback(cluster_table, d)
                /\ procs' = [procs EXCEPT
                       ![p].deleted = {},
                       ![p].errors = Append(@, "Clustering error"),
                       ![p].clustering = "error",
                       ![p].pc = "done"]
    /\ UNCHANGED <<customers, orders, rfm_table>>
    /\ shared_unchanged

NextSameDate ==
    \E p \in ProcIds :
        \/ CustomersLoop(p)
        \/ CustomersCommit(p)
        \/ OrdersLoop(p)
        \/ OrdersCommit(p)
        \/ RFMDelete(p)
        \/ RFMCommit(p)
        \/ ClusteringDelete(p)
        \/ \E labels \in [CustomerIds -> 0..(MaxK - 1)] :
               /\ \A c \in CustomerIds : labels[c] < procs[p].k
               /\ ClusteringCommit(p, labels)

SpecSameDate == InitSameDate /\ [][NextSameDate]_vars

\* ---------------------------------------------------- the entry points
\* The arguments a caller gives: none, or a value; a window of 0 days is the
\* smallest window, k starts at 1.
ArgWindowDays == {Absent} \cup {Given(v) : v \in 0..(MaxWindowDays + 3)}
ArgKs == {Absent} \cup {Given(v) : v \in 1..(MaxK + 2)}

NextEntry ==
    \/ \E d \in CalcDates, wd \in ArgWindowDays, kk \in ArgKs : RunFullPipeline(d, wd, kk)
    \/ \E d \in CalcDates, wd \in ArgWindowDays, kk \in ArgKs : PostPipelineRun(d, wd, kk)

SpecEntry == Init /\ [][NextEntry]_vars

\* ------------------------------------------------ calculate_rfm alone
\* The stored customers are drawn at the start; orders are added one by one
\* as tests/test_rfm.py does, and calculate_rfm is called on the result.
InitRFM ==
    /\ customers \in SUBSET CustomerIds
    /\ orders = {}
    /\ sess_orders = {}
    /\ rfm_table = {}
    /\ cluster_table = {}
    /\ pc = "idle"
    /\ run = 0
    /\ calc_date = 0
    /\ window_days = 0
    /\ k = 1
    /\ rfm_features = <<>>
    /\ results = NoResults
    /\ prev = NoPrev
    /\ NoKMeans
    /\ NoOther

AddOrder(oid, c, d, a, st) ==
    /\ oid \notin {o.order_id : o \in orders}
    /\ c \in customers
    /\ orders' = orders \cup {[order_id |-> oid, customer_id |-> c, order_date |-> d,
                               order_amount |-> a, status |-> st]}
    /\ sess_orders' = orders'
    /\ pc' = "idle"
    /\ rfm_features' = <<>>
    /\ UNCHANGED <<customers, rfm_table, cluster_table, run, calc_date, window_days,
                   k, results, prev, kmeans_vars, other_vars>>

CalcRFM(cd, wd) ==
    /\ calc_date' = cd
    /\ window_days' = wd
    /\ rfm_features' = calculate_rfm(customers, orders, cd, wd)
    /\ pc' = "rfm_returned"
    /\ UNCHANGED <<customers, orders, sess_orders, rfm_table, cluster_table, run, k,
                   results, prev, kmeans_vars, other_vars>>

NextRFM ==
    \/ \E oid \in OrderIds, c \in CustomerIds, d \in Ticks, a \in Amounts, st \in Statuses :
           AddOrder(oid, c, d, a, st)
    \/ \E cd \in CalcDates, wd \in WindowDays : CalcRFM(cd, wd)

SpecRFM == InitRFM /\ [][NextRFM]_vars

\* ------------------------------------------ map_cluster_to_segment alone
\* The standardized values the centroids are drawn from, in tenths: both
\* sides of every threshold, the thresholds themselves, and the values of
\* tests/test_clustering.py.
StdValues == {-10, -6, -5, -3, 0, 3, 5, 6, 8, 10}
TestCentroids == {<<-10, 10, 10>>, <<10, -10, -10>>, <<-3, 8, 5>>}

InitSegment ==
    /\ customers = {}
    /\ orders = {}
    /\ sess_orders = {}
    /\ rfm_table = {}
    /\ cluster_table = {}
    /\ pc = "idle"
    /\ run = 0
    /\ calc_date = 0
    /\ window_days = 0
    /\ k = 1
    /\ rfm_features = <<>>
    /\ results = NoResults
    /\ prev = NoPrev
    /\ cluster_assignments = <<>>
    /\ centroids \in {<<c, t>> : c \in StdValues \X StdValues \X StdValues,
                                  t \in TestCentroids}
    /\ cluster_id = 0
    /\ segment_name = ""
    /\ NoOther

MapSegment(cid) ==
    /\ cluster_id' = cid
    /\ segment_name' = map_cluster_to_segment(cid, centroids)
    /\ pc' = "segment_returned"
    /\ UNCHANGED <<customers, orders, sess_orders, rfm_table, cluster_table, run,
                   calc_date, window_days, k, rfm_features, results, prev,
                   cluster_assignments, centroids, other_vars>>

NextSegment == \E cid \in 0..1 : MapSegment(cid)

SpecSegment == InitSegment /\ [][NextSegment]_vars

\* ------------------------------------------- run_kmeans_clustering alone
\* RFM rows are stored one by one as the fixture of tests/test_clustering.py
\* does, and run_kmeans_clustering is called on what is stored.  What
\* KMeans.fit_predict gives is any labelling of the rows by 0..k-1 and any k
\* centroids with one coordinate per column of X; the centroids are drawn
\* from those of tests/test_clustering.py.
SampleFeatures == {[recency_days |-> 2, frequency |-> 0, monetary |-> 0],
                   [recency_days |-> 0, frequency |-> 1, monetary |-> 2000]}
AddFeature(c, d, f) ==
    /\ \A r \in rfm_table : Key(r) # <<c, d>>
    /\ rfm_table' = rfm_table \cup
           Stored(<<[customer_id |-> c, calc_date |-> d,
                     recency_days |-> f.recency_days, frequency |-> f.frequency,
                     monetary |-> f.monetary]>>, 0)
    /\ pc' = "idle"
    /\ cluster_assignments' = <<>>
    /\ centroids' = <<>>
    /\ UNCHANGED <<customers, orders, sess_orders, cluster_table, run, calc_date,
                   window_days, k, rfm_features, results, prev, cluster_id,
                   segment_name, other_vars>>

KMeansCall(d, kk, labels, cents) ==
    /\ calc_date' = d
    /\ k' = kk
    /\ LET rows == SetToSeq(rfm_rows_for(rfm_table, d))
           X == feature_matrix(rows)
       IN  IF insufficient_data(Len(rows), kk)
           THEN /\ pc' = "kmeans_raised"
                /\ cluster_assignments' = <<>>
                /\ centroids' = <<>>
           ELSE /\ \A i \in 1..kk : Len(cents[i]) = Len(X[1])
                /\ pc' = "kmeans_returned"
                /\ cluster_assignments' =
                       named_assignments(run_kmeans_clustering(rfm_table, d, kk, labels),
                                         cents)
                /\ centroids' = inverse_transform(cents)
    /\ UNCHANGED <<customers, orders, sess_orders, rfm_table, cluster_table, run,
                   window_days, rfm_features, results, prev, cluster_id,
                   segment_name, other_vars>>

NextKMeans ==
    \/ \E c \in CustomerIds, d \in CalcDates, f \in SampleFeatures : AddFeature(c, d, f)
    \/ \E d \in CalcDates, kk \in Ks, labels \in [CustomerIds -> 0..(MaxK - 1)] :
           \E cents \in [1..kk -> TestCentroids] :
               /\ \A c \in CustomerIds : labels[c] < kk
               /\ KMeansCall(d, kk, labels, cents)

SpecKMeans == Init /\ [][NextKMeans]_vars

\* ------------------------------------------------------------- claims
\* What the claims call a qualifying order of customer c for the call's
\* calc_date and window_days, written out from the specification's words.
Qualifying(c) ==
    {o \in orders : /\ o.customer_id = c
                    /\ o.status = "completed"
                    /\ calc_date - window_days * TicksPerDay <= o.order_date
                    /\ o.order_date <= calc_date}

Returned == pc = "rfm_returned"
RecordsOf(c) == {i \in 1..Len(rfm_features) : rfm_features[i].customer_id = c}

C2_Values ==
    Returned =>
        \A c \in customers :
            Qualifying(c) # {} =>
                /\ RecordsOf(c) # {}
                /\ \A i \in RecordsOf(c) :
                       /\ \E m \in Qualifying(c) :
                              /\ \A o \in Qualifying(c) : o.order_date <= m.order_date
                              /\ rfm_features[i].recency_days * TicksPerDay
                                     <= calc_date - m.order_date
                              /\ calc_date - m.order_date
                                     < (rfm_features[i].recency_days + 1) * TicksPerDay
                       /\ rfm_features[i].frequency = Cardinality(Qualifying(c))
                       /\ rfm_features[i].monetary = SumAmounts(Qualifying(c))

C2_AddNotCompleted ==
    \A o \in orders' \ orders :
        (orders' = orders \cup {o} /\ o.status # "completed") =>
            \A cd \in CalcDates, wd \in WindowDays :
                calculate_rfm(customers', orders', cd, wd)
                    = calculate_rfm(customers, orders, cd, wd)

C3_OneRecordPerCustomer ==
    Returned =>
        /\ Len(rfm_features) = Cardinality(customers)
        /\ \A c \in customers : Cardinality(RecordsOf(c)) = 1
        /\ \A i \in 1..Len(rfm_features) :
               /\ rfm_features[i].customer_id \in customers
               /\ rfm_features[i].calc_date = calc_date

\* Two stored customers, one of them without any order, and two records.
C3_Witness ==
    /\ Returned
    /\ Cardinality(customers) = 2
    /\ \E c \in customers : \A o \in orders : o.customer_id # c
    /\ \E c \in customers : \E o \in orders : o.customer_id = c
    /\ Len(rfm_features) = 2

\* C4: the window is closed at both ends: completed orders dated exactly
\* calc_date - window_days or exactly calc_date are counted, completed orders
\* dated earlier than calc_date - window_days or later than calc_date are not.
InClosedWindow(o) ==
    /\ calc_date - window_days * TicksPerDay <= o.order_date
    /\ o.order_date <= calc_date

CompletedOf(c) == {o \in orders : o.customer_id = c /\ o.status = "completed"}

C4_ClosedWindow ==
    Returned =>
        \A c \in customers : \A i \in RecordsOf(c) :
            /\ rfm_features[i].frequency
                   = Cardinality({o \in CompletedOf(c) : InClosedWindow(o)})
            /\ \A o \in CompletedOf(c) :
                   /\ o.order_date = calc_date - window_days * TicksPerDay
                          => /\ rfm_features[i].frequency >= 1
                             /\ rfm_features[i].monetary >= o.order_amount
                             /\ rfm_features[i].recency_days <= window_days
                   /\ o.order_date = calc_date
                          => /\ rfm_features[i].frequency >= 1
                             /\ rfm_features[i].monetary >= o.order_amount
                             /\ rfm_features[i].recency_days = 0
            /\ (\A o \in CompletedOf(c) :
                    \/ o.order_date < calc_date - window_days * TicksPerDay
                    \/ o.order_date > calc_date)
                   => /\ rfm_features[i].frequency = 0
                      /\ rfm_features[i].monetary = 0

\* With a window of at least one day: one customer's only order is dated
\* exactly at the start of the window and is counted, another customer's only
\* order is dated one tick before the start and is not.
C4_Witness ==
    /\ Returned
    /\ window_days >= 1
    /\ \E c1, c2 \in customers :
           /\ c1 # c2
           /\ \E o \in CompletedOf(c1) :
                  /\ CompletedOf(c1) = {o}
                  /\ o.order_date = calc_date - window_days * TicksPerDay
                  /\ \E i \in RecordsOf(c1) : /\ rfm_features[i].frequency = 1
                                              /\ rfm_features[i].recency_days = window_days
           /\ \E o \in CompletedOf(c2) :
                  /\ CompletedOf(c2) = {o}
                  /\ o.order_date = calc_date - window_days * TicksPerDay - 1
                  /\ \E i \in RecordsOf(c2) : rfm_features[i].frequency = 0

\* ------------------------------------------------- claims on the pipeline
Done == pc = "done"
RfmOk == results.rfm.state = "ok"
ClusteringOk == results.clustering.state = "ok"
NRfm == Cardinality(RowsFor(rfm_table, calc_date))
NClusters == Cardinality(RowsFor(cluster_table, calc_date))

\* C5 as stated: after every completed run for calc_date d, whatever its
\* status, the tables hold as many cluster assignments as RFM rows for d.
C5_AnyStatus == Done => NClusters = NRfm

\* C5 as amended: after every completed run for calc_date d whose clustering
\* stage succeeded, the tables hold as many cluster assignments as RFM rows
\* for d.
C5_ClusteringSucceeded == (Done /\ ClusteringOk) => NClusters = NRfm

\* A second run for the same date whose RFM stage failed and whose clustering
\* stage succeeded over the two rows the first run had stored.
C5_Witness ==
    /\ Done /\ ClusteringOk /\ ~RfmOk
    /\ results.status = "partial_success"
    /\ NRfm = 2 /\ NClusters = 2
    /\ \A r \in RowsFor(cluster_table, calc_date) : r.run = run
    /\ \A r \in RowsFor(rfm_table, calc_date) : r.run < run

\* C6: in every reachable state every stored cluster assignment has a stored
\* RFM row with the same (customer, calc_date) key.
C6_AssignmentHasFeature ==
    \A a \in cluster_table : \E f \in rfm_table : Key(f) = Key(a)

\* Assignments an earlier run stored are still there after a later run has
\* rewritten the RFM rows of their date and its clustering stage has failed.
C6_Witness ==
    /\ Done /\ RfmOk /\ ~ClusteringOk
    /\ \E a \in cluster_table : \E f \in rfm_table : Key(f) = Key(a) /\ a.run < f.run

\* C7: in every reachable state there is at most one RFM row and at most one
\* cluster assignment per (customer, calc_date).
C7_UniquePerKey ==
    /\ \A r1, r2 \in rfm_table : Key(r1) = Key(r2) => r1 = r2
    /\ \A a1, a2 \in cluster_table : Key(a1) = Key(a2) => a1 = a2

\* A run has repeated the date of the run before it and both of its stages
\* have written their rows for two customers.
C7_Witness ==
    /\ Done /\ prev.valid /\ RfmOk /\ ClusteringOk
    /\ prev.n_rfm = 2 /\ prev.n_clusters = 2
    /\ NRfm = 2 /\ NClusters = 2

NoNewSuccess ==
    /\ RfmOk => prev.rfm = "ok"
    /\ ClusteringOk => prev.clustering = "ok"

C9_AlwaysSupersedes ==
    Done =>
        /\ \A r \in RowsFor(rfm_table, calc_date) : r.run = run
        /\ \A a \in RowsFor(cluster_table, calc_date) : a.run = run

\* C9 as amended: after a completed run for calc_date d, the RFM rows keyed to
\* d were all written by that run if its RFM stage succeeded, and the cluster
\* assignments keyed to d were all written by that run if its clustering stage
\* succeeded; a stage that does not succeed leaves its table as it was.
C9_SucceededStage ==
    Done =>
        /\ RfmOk => \A r \in RowsFor(rfm_table, calc_date) : r.run = run
        /\ ClusteringOk => \A a \in RowsFor(cluster_table, calc_date) : a.run = run

C9_FailedStage ==
    /\ (pc = "rfm" /\ results'.rfm.state # "ok") => rfm_table' = rfm_table
    /\ (pc = "clustering" /\ results'.clustering.state # "ok")
           => cluster_table' = cluster_table

C9_SupersedesOnSuccess == []C9_SucceededStage /\ [][C9_FailedStage]_vars

\* A rerun for the date of the run before it has replaced the rows of both
\* tables: none of the earlier run's rows for the date is left.
C9_Witness ==
    /\ Done /\ prev.valid /\ RfmOk /\ ClusteringOk
    /\ prev.n_rfm >= 1 /\ prev.n_clusters >= 1
    /\ \A r \in RowsFor(rfm_table, calc_date) : r.run = run
    /\ \A a \in RowsFor(cluster_table, calc_date) : a.run = run
    /\ NRfm >= 1 /\ NClusters >= 1

\* C10: the status is 'success' exactly when none of ingestion, RFM and
\* clustering errored, 'partial_success' when a stage errored and all stages
\* were executed, 'error' only when an exception escaped a stage's handler.
IngestionErrored == results.ingestion.errors # <<>>
RfmErrored == results.rfm.state = "error"
ClusteringErrored == results.clustering.state = "error"
ExceptionEscaped ==
    \E i \in 1..Len(results.errors) : results.errors[i] = "Pipeline error"

C10_Status ==
    Done =>
        /\ results.status = "success"
               <=> ~(IngestionErrored \/ RfmErrored \/ ClusteringErrored
                     \/ ExceptionEscaped)
        /\ ((IngestionErrored \/ RfmErrored \/ ClusteringErrored) /\ ~ExceptionEscaped)
               => results.status = "partial_success"
        /\ results.status = "error" => ExceptionEscaped

\* C11: whenever a stage fails during a run, a failure of customer or order
\* ingestion included, the returned result's top-level errors list has an
\* entry with that stage's error message and the result marks that stage as
\* failed.
HasError(msg) == \E i \in 1..Len(results.errors) : results.errors[i] = msg
RfmStageFailed == Done /\ ~RfmOk
ClusteringStageFailed == Done /\ results.rfm.state # "unset" /\ ~ClusteringOk

C11_FailuresReported ==
    Done =>
        /\ IngestionErrored =>
               /\ HasError("Customer ingestion error") \/ HasError("Order ingestion error")
                      \/ HasError("Ingestion error")
               /\ results.ingestion.state = "error"
        /\ RfmStageFailed =>
               /\ HasError("RFM calculation error")
               /\ results.rfm.state = "error"
        /\ ClusteringStageFailed =>
               /\ HasError("Clustering error")
               /\ results.clustering.state = "error"

\* C12: run_full_pipeline never raises to its caller: under every combination
\* of failures of ingestion, RFM computation, clustering, commit, rollback and
\* session handling the call ends by returning a result whose status is
\* 'success', 'partial_success' or 'error'.
Ended == pc \in {"done", "raised"}

C12_NeverRaises ==
    Ended => /\ pc = "done"
             /\ results.status \in {"success", "partial_success", "error"}

\* C13: whenever fewer RFM rows than k are stored for calc_date, none included,
\* run_kmeans_clustering fails for lack of data: the clustering stage reports
\* an error, no assignment is counted as produced and the stored assignments
\* are left as they were.
C13_Refused ==
    (pc = "clustering" /\ NRfm < k) =>
        /\ results'.clustering.state # "ok"
        /\ results'.clustering.customers_clustered = 0
        /\ \E i \in 1..Len(results'.errors) :
               results'.errors[i] \in {"Clustering error", "Pipeline error"}
        /\ cluster_table' = cluster_table

C13_InsufficientData == [][C13_Refused]_vars

\* A run whose RFM stage stored one row and whose k is 2: the clustering
\* stage has reported the error and stored nothing for the date.
C13_Witness ==
    /\ Done /\ RfmOk /\ ClusteringErrored
    /\ NRfm >= 1 /\ NRfm < k
    /\ NClusters = 0
    /\ HasError("Clustering error")

\* C14: for every standardized centroid (r, f, m) map_cluster_to_segment
\* returns the label of the first row of the ordered rule table that matches:
\* Champions (r<-0.5, f>0.5, m>0.5); Loyal Customers (r<-0.5, f>0.5); Big
\* Spenders (r<-0.5, m>0.5); Potential Loyalists (r<0, f>0); At Risk (r>0.5,
\* f<-0.5); Lost (r>0.5); Hibernating (f<-0.5, m<-0.5); otherwise Need
\* Attention.  (-1, 1, 1) gives Champions, (1, -1, -1) At Risk and
\* (-0.3, 0.8, 0.5) Potential Loyalists.
RuleTable ==
    << [label |-> "Champions",           r |-> "<-0.5", f |-> ">0.5",  m |-> ">0.5"],
       [label |-> "Loyal Customers",     r |-> "<-0.5", f |-> ">0.5",  m |-> "any"],
       [label |-> "Big Spenders",        r |-> "<-0.5", f |-> "any",   m |-> ">0.5"],
       [label |-> "Potential Loyalists", r |-> "<0",    f |-> ">0",    m |-> "any"],
       [label |-> "At Risk",             r |-> ">0.5",  f |-> "<-0.5", m |-> "any"],
       [label |-> "Lost",                r |-> ">0.5",  f |-> "any",   m |-> "any"],
       [label |-> "Hibernating",         r |-> "any",   f |-> "<-0.5", m |-> "<-0.5"],
       [label |-> "Need Attention",      r |-> "any",   f |-> "any",   m |-> "any"] >>

\* A condition of the table on a value x given in tenths.
Holds(cond, x) ==
    CASE cond = "<-0.5" -> x < -5
      [] cond = ">0.5"  -> x > 5
      [] cond = "<0"    -> x < 0
      [] cond = ">0"    -> x > 0
      [] cond = "any"   -> TRUE

Matches(row, c) == Holds(row.r, c[1]) /\ Holds(row.f, c[2]) /\ Holds(row.m, c[3])

FirstMatch(c) ==
    LET n == CHOOSE i \in 1..Len(RuleTable) :
                 /\ Matches(RuleTable[i], c)
                 /\ \A j \in 1..(i - 1) : ~Matches(RuleTable[j], c)
    IN  RuleTable[n].label

SegmentReturned == pc = "segment_returned"

C14_RuleTable ==
    SegmentReturned =>
        LET c == centroids[cluster_id + 1] IN
        /\ segment_name = FirstMatch(c)
        /\ c = <<-10, 10, 10>> => segment_name = "Champions"
        /\ c = <<10, -10, -10>> => segment_name = "At Risk"
        /\ c = <<-3, 8, 5>> => segment_name = "Potential Loyalists"

\* The centroid (1, -1, -1), which matches both the At Risk and the Lost row,
\* has been named At Risk, after a row of the matrix other than the first.
C14_Witness ==
    /\ SegmentReturned
    /\ cluster_id = 1
    /\ centroids[cluster_id + 1] = <<10, -10, -10>>
    /\ Matches(RuleTable[5], centroids[cluster_id + 1])
    /\ Matches(RuleTable[6], centroids[cluster_id + 1])
    /\ segment_name = "At Risk"

\* C15: when it succeeds, run_kmeans_clustering returns exactly one assignment
\* per RFM row stored for calc_date, with that row's customer_id and the
\* call's calc_date, 0 <= cluster_id < k and a segment_name that is one of the
\* eight labels; the returned centroid matrix has k rows and 3 columns.
SegmentLabels ==
    {"Champions", "Loyal Customers", "Big Spenders", "Potential Loyalists",
     "At Risk", "Lost", "Hibernating", "Need Attention"}

KMeansReturned == pc = "kmeans_returned"
AssignmentsOf(c) ==
    {i \in 1..Len(cluster_assignments) : cluster_assignments[i].customer_id = c}

C15_OneAssignmentPerRow ==
    KMeansReturned =>
        /\ Len(cluster_assignments) = Cardinality(RowsFor(rfm_table, calc_date))
        /\ \A r \in RowsFor(rfm_table, calc_date) :
               Cardinality(AssignmentsOf(r.customer_id)) = 1
        /\ \A i \in 1..Len(cluster_assignments) :
               /\ \E r \in RowsFor(rfm_table, calc_date) :
                      r.customer_id = cluster_assignments[i].customer_id
               /\ cluster_assignments[i].calc_date = calc_date
               /\ cluster_assignments[i].cluster_id \in 0..(k - 1)
               /\ cluster_assignments[i].segment_name \in SegmentLabels
        /\ Len(centroids) = k
        /\ \A i \in 1..Len(centroids) : Len(centroids[i]) = 3

\* Two rows are stored for the date of the call and one for another date; the
\* call with k = 2 has put the two rows into different clusters with
\* different names.
C15_Witness ==
    /\ KMeansReturned
    /\ k = 2
    /\ Cardinality(RowsFor(rfm_table, calc_date)) = 2
    /\ \E r \in rfm_table : r.calc_date # calc_date
    /\ Len(cluster_assignments) = 2
    /\ cluster_assignments[1].cluster_id # cluster_assignments[2].cluster_id
    /\ cluster_assignments[1].segment_name # cluster_assignments[2].segment_name

\* C17: at both entry points an explicitly given window_days or k is the
\* value the run uses, whatever the value; the configured default is used
\* only when the argument is absent.
Entered == request.entry # "none"

C17_ExplicitWins ==
    Entered =>
        /\ window_days = IF request.window_days.given THEN request.window_days.value
                         ELSE RFM_WINDOW_DAYS
        /\ k = IF request.k.given THEN request.k.value ELSE DEFAULT_K

\* C18: GET /segments without calc_date answers 404 exactly when no cluster
\* assignment is stored; otherwise, after any sequence of pipeline runs, it
\* reports the segments of the greatest calc_date that has stored assignments.
Asked == response.status_code # 0
AssignmentDates == {a.calc_date : a \in cluster_table}
AssignmentsAt(d, c) == {a \in cluster_table : a.calc_date = d /\ a.data.cluster_id = c}

C18_LatestSegments ==
    Asked =>
        /\ response.status_code = 404 <=> cluster_table = {}
        /\ cluster_table # {} =>
               /\ response.status_code = 200
               /\ response.calc_date \in AssignmentDates
               /\ \A d \in AssignmentDates : d <= response.calc_date
               /\ \A c \in 0..(MaxK - 1) :
                      AssignmentsAt(response.calc_date, c) # {} <=>
                          \E sg \in response.segments :
                              /\ sg.cluster_id = c
                              /\ sg.customer_count
                                     = Cardinality(AssignmentsAt(response.calc_date, c))
               /\ \A sg \in response.segments : sg.cluster_id \in 0..(MaxK - 1)

\* Assignments are stored for two dates, those of the greater date by the
\* earlier run; the response reports the greater date and its segments.
C18_Witness ==
    /\ Asked
    /\ response.status_code = 200
    /\ \E a, b \in cluster_table :
           /\ a.calc_date > b.calc_date
           /\ a.run < b.run
           /\ response.calc_date = a.calc_date
    /\ response.segments # {}

\* C16: two runs for different calc_dates may execute concurrently: under
\* every interleaving of their steps both complete without a failure caused
\* by the other, and the RFM rows and cluster assignments stored for each
\* calc_date are those the two runs leave when one runs after the other.
AllDone == \A p \in ProcIds : procs[p].pc = "done"
FileCustomers == {SharedCustomers[i] : i \in 1..Len(SharedCustomers)}
FileOrders == {SharedOrders[i] : i \in 1..Len(SharedOrders)}

\* What a run for date d leaves when it runs alone, before or after the other:
\* both ingest the same files, so it computes over the stored and the files'
\* customers and orders.
SerialFeatures(d) ==
    LET feats == calculate_rfm(customers \cup FileCustomers, orders \cup FileOrders,
                               d, window_days)
    IN  {feats[i] : i \in 1..Len(feats)}

C16_ConcurrentRunsSafe ==
    (procs # <<>> /\ AllDone) =>
        \A p \in ProcIds :
            /\ procs[p].errors = <<>>
            /\ {r.data : r \in RowsFor(rfm_table, procs[p].calc_date)}
                   = SerialFeatures(procs[p].calc_date)
            /\ {a.customer_id : a \in RowsFor(cluster_table, procs[p].calc_date)}
                   = customers \cup FileCustomers

\* C20: for window_days >= 0 every customer with a qualifying order gets
\* 0 <= recency_days <= window_days, so the sentinel window_days + 1 of the
\* customers without one is strictly greater than the recency of every
\* customer that has a qualifying order.
C20_RecencyBelowSentinel ==
    Returned =>
        \A c \in customers : \A i \in RecordsOf(c) :
            Qualifying(c) # {} =>
                /\ 0 <= rfm_features[i].recency_days
                /\ rfm_features[i].recency_days <= window_days
                /\ rfm_features[i].recency_days < window_days + 1
                /\ \A c2 \in customers : \A j \in RecordsOf(c2) :
                       Qualifying(c2) = {} =>
                           rfm_features[j].recency_days > rfm_features[i].recency_days

\* With a window of at least one day, one customer's latest qualifying order
\* is dated exactly at the start of the window (recency window_days) and
\* another customer has no qualifying order (recency window_days + 1).
C20_Witness ==
    /\ Returned
    /\ window_days >= 1
    /\ \E c1, c2 \in customers :
           /\ Qualifying(c1) # {}
           /\ \A o \in Qualifying(c1) :
                  o.order_date = calc_date - window_days * TicksPerDay
           /\ \E i \in RecordsOf(c1) : rfm_features[i].recency_days = window_days
           /\ Qualifying(c2) = {}
           /\ \E j \in RecordsOf(c2) : rfm_features[j].recency_days = window_days + 1

\* C21: each stage is atomic on failure: an RFM stage that fails leaves the
\* stored RFM rows exactly as they were before the stage began, a clustering
\* stage that fails leaves the stored cluster assignments exactly as they were,
\* and a clustering failure undoes none of the RFM rows the same run committed.
C21_FailureRestores ==
    /\ (pc = "rfm" /\ results'.rfm.state # "ok") => rfm_table' = rfm_table
    /\ (pc = "clustering" /\ results'.clustering.state # "ok") =>
           /\ cluster_table' = cluster_table
           /\ rfm_table' = rfm_table
           /\ RfmOk => /\ RowsFor(rfm_table', calc_date) # {} \/ customers = {}
                       /\ \A r \in RowsFor(rfm_table', calc_date) : r.run = run

C21_RfmKeptAfterClusteringFailure ==
    (Done /\ RfmOk /\ ~ClusteringOk) =>
        /\ NRfm = results.rfm.customers_processed
        /\ \A r \in RowsFor(rfm_table, calc_date) : r.run = run

C21_StageAtomic == [][C21_FailureRestores]_vars /\ []C21_RfmKeptAfterClusteringFailure

\* A rerun for the date of the run before it: its RFM stage has replaced the
\* rows of the date, its clustering stage has failed after its delete, and
\* the earlier run's assignments and the rerun's RFM rows are all stored.
C21_Witness ==
    /\ Done /\ prev.valid /\ RfmOk /\ ClusteringErrored
    /\ prev.n_clusters = 2 /\ NClusters = 2
    /\ \A a \in RowsFor(cluster_table, calc_date) : a.run < run
    /\ NRfm = 2
    /\ \A r \in RowsFor(rfm_table, calc_date) : r.run = run

\* C22: a run for calc_date d deletes and writes only RFM rows and cluster
\* assignments whose calc_date equals d as a timestamp: the rows keyed to every
\* other calc_date, other times of the same calendar day included, are the
\* same after the run as before it.
SameDay(d1, d2) == d1 \div TicksPerDay = d2 \div TicksPerDay
OtherRows(table, d) == {r \in table : r.calc_date # d}

C22_OtherDatesKept ==
    /\ OtherRows(rfm_table', calc_date') = OtherRows(rfm_table, calc_date')
    /\ OtherRows(cluster_table', calc_date') = OtherRows(cluster_table, calc_date')
    /\ \A r \in rfm_table' \ rfm_table : r.calc_date = calc_date'
    /\ \A a \in cluster_table' \ cluster_table : a.calc_date = calc_date'

C22_ExactDateOnly == [][C22_OtherDatesKept]_vars

\* The second run has written its rows and assignments for a time of the day
\* for another time of which the first run's rows and assignments are stored.
C22_Witness ==
    /\ Done /\ RfmOk /\ ClusteringOk /\ run = 2
    /\ \E a, b \in rfm_table :
           /\ a.calc_date # b.calc_date /\ SameDay(a.calc_date, b.calc_date)
           /\ a.run = 1 /\ b.run = 2 /\ b.calc_date = calc_date
    /\ \E a, b \in cluster_table :
           /\ a.calc_date # b.calc_date /\ SameDay(a.calc_date, b.calc_date)
           /\ a.run = 1 /\ b.run = 2 /\ b.calc_date = calc_date

\* C23 as stated: in every run the RFM stage is entered after the ingestion
\* stage whether or not ingestion failed, and the clustering stage after the
\* RFM stage whether or not the RFM stage failed, in the order ingestion, RFM,
\* clustering.
C23_Order ==
    /\ pc' = "rfm" => pc = "ingest"
    /\ pc' = "clustering" => pc = "rfm"

C23_EveryStageEntered ==
    /\ C23_Order
    /\ pc = "ingest" => pc' = "rfm"
    /\ pc = "rfm" => pc' = "clustering"

C23_AsStated == [][C23_EveryStageEntered]_vars

\* C23 as amended: the same, except that a run ends with status 'error'
\* without entering the clustering stage when the handler of the RFM stage
\* itself raises (db.rollback() fails); an exception a stage's handler catches
\* never keeps a later stage from being entered.
C23_EnteredUnlessEscaped ==
    /\ C23_Order
    /\ pc = "ingest" => pc' = "rfm"
    /\ pc = "rfm" =>
           \/ pc' = "clustering"
           \/ /\ pc' \in {"done", "raised"}
              /\ results'.status = "error"
              /\ results'.rfm.state = "unset"
              /\ \E i \in 1..Len(results'.errors) : results'.errors[i] = "Pipeline error"
    /\ (pc = "rfm" /\ results'.rfm.state = "error") => pc' = "clustering"

C23_LaterStagesEntered == [][C23_EnteredUnlessEscaped]_vars

\* A run in which order ingestion and the RFM stage failed and the clustering
\* stage was entered and ended, all of it reported as partial_success.
C23_Witness ==
    /\ Done
    /\ IngestionErrored /\ RfmErrored
    /\ results.clustering.state # "unset"
    /\ results.status = "partial_success"

\* C24: if the RFM stage of a run did not succeed, the clustering stage of
\* that run refuses to run: it reports itself as skipped, reads no RFM rows,
\* and neither deletes nor writes any cluster assignment.
C24_Skips ==
    (pc = "clustering" /\ ~RfmOk) =>
        /\ results'.clustering.state = "skipped"
        /\ results'.clustering.customers_clustered = 0
        /\ cluster_table' = cluster_table

C24_ClusteringSkippedAfterRfmFailure == [][C24_Skips]_vars

\* C25: two runs for the same calc_date are not safe side by side and nothing
\* keeps them apart: when both have deleted the date's rows before either has
\* written, both insert rows for the same (customer, calc_date) keys and the
\* outcome is not that of the runs one after the other: a run fails (or
\* duplicate keys are stored).  One after the other, neither run fails.
SomeOverlapped == \E p \in ProcIds : procs[p].overlapped
SomeFailed == \E p \in ProcIds : procs[p].errors # <<>>
DuplicateKeys ==
    \/ \E r1, r2 \in rfm_table : Key(r1) = Key(r2) /\ r1 # r2
    \/ \E a1, a2 \in cluster_table : Key(a1) = Key(a2) /\ a1 # a2

C25_SameDateRunsUnsafe ==
    (procs # <<>> /\ AllDone) =>
        /\ SomeOverlapped => (SomeFailed \/ DuplicateKeys)
        /\ ~SomeOverlapped => (~SomeFailed /\ ~DuplicateKeys)

\* Both runs were between the DELETE and the commit of the RFM stage at the
\* same time; one of them has stored its rows and the other has reported the
\* failure of its RFM stage.
C25_Witness ==
    /\ procs # <<>> /\ AllDone
    /\ \E p, q \in ProcIds :
           /\ p # q
           /\ procs[q].overlapped
           /\ procs[p].rfm = "ok" /\ procs[p].errors = <<>>
           /\ procs[q].rfm = "error"
           /\ \A r \in RowsFor(rfm_table, SameDate) : r.run = p
           /\ RowsFor(rfm_table, SameDate) # {}

\* C26: the ordered rule table is total and uses all eight labels: for every
\* standardized centroid map_cluster_to_segment returns exactly one of the
\* eight labels, and each of the eight labels is returned for at least one
\* centroid (no rule is made unreachable by the rules before it).
LabelsReturned ==
    {map_cluster_to_segment(0, <<c>>) : c \in StdValues \X StdValues \X StdValues}

C26_TotalAndAllLabelsUsed ==
    /\ SegmentReturned => segment_name \in SegmentLabels
    /\ Cardinality(SegmentLabels) = 8
    /\ \A label \in SegmentLabels : label \in LabelsReturned

\* A centroid that is neither recent nor late (-0.5 <= r <= 0.5) with low
\* frequency and low monetary value has passed the six rules before the one
\* for Hibernating and has been named Hibernating.
C26_Witness ==
    /\ SegmentReturned
    /\ segment_name = "Hibernating"
    /\ LET c == centroids[cluster_id + 1] IN
           /\ c[1] >= -Half /\ c[1] <= Half
           /\ c[2] < -Half /\ c[3] < -Half

\* C27: after a run that returns status 'success', the customers with an RFM
\* row for the run's calc_date, the customers with a cluster assignment for
\* that calc_date and the stored customers are one and the same set.
RfmCustomers == {r.customer_id : r \in RowsFor(rfm_table, calc_date)}
ClusteredCustomers == {a.customer_id : a \in RowsFor(cluster_table, calc_date)}

C27_SameCustomers ==
    (Done /\ results.status = "success") =>
        /\ RfmCustomers = customers
        /\ ClusteredCustomers = customers

\* A successful run over two stored customers, one of them without any
\* order: both have an RFM row and an assignment for the date.
C27_Witness ==
    /\ Done /\ results.status = "success"
    /\ Cardinality(customers) = 2
    /\ \E c \in customers : \A o \in orders : o.customer_id # c
    /\ RfmCustomers = customers
    /\ ClusteredCustomers = customers

\* C28: if order ingestion raises partway through its input, no order of
\* that input is persisted by the run: the orders added to the session before
\* the failure are not made durable by the commit of the later RFM or
\* clustering stage.
OrderIngestionRaised ==
    \E i \in 1..Len(results.ingestion.errors) :
        results.ingestion.errors[i] = "Order ingestion error"

C28_NothingMadeDurable ==
    (pc \in {"rfm", "clustering"} /\ OrderIngestionRaised) => orders' = orders

C28_FailedOrderInputNotPersisted == [][C28_NothingMadeDurable]_vars

\* C29: when calc_date is omitted the run is keyed to the current time, so
\* two successive runs that both omit it use different keys and the later run
\* deletes none of the earlier run's rows: the earlier run's RFM rows and
\* cluster assignments remain stored alongside those of the later run.
EarlierRows(table) == {r \in table : r.run < run}

C29_KeyIsCallTime ==
    request # NoRequest =>
        /\ calc_date = request.at
        /\ \A r \in EarlierRows(rfm_table) : r.calc_date # calc_date
        /\ \A a \in EarlierRows(cluster_table) : a.calc_date # calc_date

C29_KeepsEarlierRows ==
    /\ \A r \in rfm_table : r.run < run' => r \in rfm_table'
    /\ \A a \in cluster_table : a.run < run' => a \in cluster_table'

C29_OmittedDateRunsAccumulate == []C29_KeyIsCallTime /\ [][C29_KeepsEarlierRows]_vars

\* Two runs without calc_date have both succeeded: the rows and assignments
\* of the first are stored next to those of the second, under another key.
C29_Witness ==
    /\ Done /\ run = 2 /\ RfmOk /\ ClusteringOk
    /\ request # NoRequest /\ ~request.calc_date.given
    /\ \E a, b \in rfm_table : a.run = 1 /\ b.run = 2 /\ a.calc_date # b.calc_date
    /\ \E a, b \in cluster_table : a.run = 1 /\ b.run = 2 /\ a.calc_date # b.calc_date
    /\ Cardinality(EarlierRows(rfm_table)) = 2
    /\ Cardinality(EarlierRows(cluster_table)) = 2

\* C30: for window_days >= 0, in every record calculate_rfm returns,
\* recency_days = window_days + 1 if and only if frequency = 0, and
\* frequency = 0 implies monetary = 0; monetary = 0 does not imply
\* frequency = 0 (a customer whose qualifying orders have amount 0).
C30_SentinelIffNoOrders ==
    (Returned /\ window_days >= 0) =>
        \A i \in 1..Len(rfm_features) :
            /\ rfm_features[i].recency_days = window_days + 1
                   <=> rfm_features[i].frequency = 0
            /\ rfm_features[i].frequency = 0 => rfm_features[i].monetary = 0

\* One record has monetary 0 with frequency 1 and a recency within the
\* window, another has frequency 0, monetary 0 and the sentinel recency.
C30_Witness ==
    /\ Returned
    /\ \E i, j \in 1..Len(rfm_features) :
           /\ rfm_features[i].monetary = 0
           /\ rfm_features[i].frequency = 1
           /\ rfm_features[i].recency_days <= window_days
           /\ rfm_features[j].frequency = 0
           /\ rfm_features[j].monetary = 0
           /\ rfm_features[j].recency_days = window_days + 1

====
